---- MODULE Spec2Model ----
(***************************************************************************)
(* Model of radar_distance_monitor.py: the per-host RadarDataCollector     *)
(* (stream reader, line decoder, sidecar log) and the RealTimeGrapher      *)
(* (aggregation tick update_plot, liveness, window buffer, key handler).   *)
(*                                                                         *)
(* Times are in milliseconds (the float 120 s is 120000) and distances in  *)
(* millimetres (the float 0.452 m is 452).  A line of the stream is the    *)
(* sequence of its whitespace-separated tokens.                            *)
(***************************************************************************)
EXTENDS Integers, Sequences, FiniteSets, TLC

VARIABLES
    now,                 \* time.time()
    collectors,          \* RealTimeGrapher.collectors: the configured hosts, in order
    enable_file_logging, \* RadarDataCollector.enable_file_logging (one run-wide setting)
    task,                \* per host: position of collect_data
    readers,             \* per host: the reader loops (stdout, stderr) still running
    pending,             \* per host: the identity line read_stdout is in the middle of (None otherwise)
    running,             \* per host: RadarDataCollector.running
    cstart,              \* per host: RadarDataCollector.start_time (None before the command started)
    chip_id,             \* per host: RadarDataCollector.chip_id
    chip_model,          \* per host: RadarDataCollector.chip_model
    log_file,            \* per host: RadarDataCollector.log_file (index into files, None when absent)
    files,               \* the sidecar files on disk: [name, host, open, rows, seen]
    data_queue,          \* per host: RadarDataCollector.data_queue
    log_queue,           \* per host: RadarDataCollector.log_queue
    status_queue,        \* per host: RadarDataCollector.status_queue
    nlines,              \* number of lines delivered by all streams so far
    data,                \* per host: RealTimeGrapher.data[host_id]
    latest_logs,         \* per host: RealTimeGrapher.latest_logs[host_id]
    scrollback_mode,     \* RealTimeGrapher.scrollback_mode
    zoom_start,          \* RealTimeGrapher.zoom_start
    zoom_duration,       \* RealTimeGrapher.zoom_duration
    legend,              \* per host: the status shown by the legend
    xlim,                \* the x limits of the axes (ax.set_xlim), None before the first tick
    tpc,                 \* position of update_plot: 0 idle, i processing collector i, NumHosts+1 finishing,
                         \* NumHosts+1+i in update_log_panel's loop over the log queue of collector i
    current_time,        \* update_plot's local current_time
    legend_needs_update, \* update_plot's local legend_needs_update
    gui,                 \* "open" while the animation runs, "closed" once plt.show() returned
    nkeys,               \* number of key events handled so far
    nstops,              \* number of stop() calls made so far
    decoded,             \* history, per host: the samples read_stdout decoded with a non-zero flag
    appended             \* history, per host: the points update_plot appended to the buffer

vars == <<now, collectors, enable_file_logging, task, running, cstart, chip_id, chip_model,
          log_file, files, data_queue, log_queue, status_queue, nlines, data,
          latest_logs, scrollback_mode, zoom_start, zoom_duration, legend, xlim,
          tpc, current_time, legend_needs_update, gui, nkeys, nstops, readers,
          pending, decoded, appended>>

collectorVars == <<task, readers, pending, running, cstart, chip_id, chip_model, log_file, files,
                   data_queue, log_queue, status_queue, nlines, decoded>>
grapherVars == <<data, latest_logs, scrollback_mode, zoom_start, zoom_duration,
                 legend, xlim, appended>>
tickVars == <<tpc, current_time, legend_needs_update>>

None == "None"

----------------------------------------------------------------------------
(* Bounds of the model *)

\* Lines delivered by all the streams together.
MaxLines == 2

\* Lines delivered in the runs that follow one sidecar log: an identity line
\* and a sample may be followed by one more line.
SidecarLines == MaxLines + 1

\* stop() calls during shutdown (one per collector, and one repeated call).
MaxStops == 3

\* Key events handled by on_key_press.
MaxKeys == 2

\* Items a queue holds at most in the runs of a stream that never ends.
QueueCap == 2

----------------------------------------------------------------------------
(* Program constants *)

time_window == 120000

connection_timeout == 10000

\* on_key_press clamps zoom_duration to [10 s, 3600 s].
MinZoom == 10000

MaxZoom == 3600000

\* The wall clock when the grapher was constructed (RealTimeGrapher.start_time).
start_time == 1000000

NumHosts == Len(collectors)

Hosts == {collectors[i] : i \in 1..NumHosts}

\* The instants at which a run observes the clock, as offsets from
\* start_time: around the liveness timeout (events at 0 and 5 s, checks at
\* 14, 15 and 16 s) and around the window length.
LivenessClock == {5000, 14000, 15000, 16000}

WindowClock == {time_window, time_window + 1000}

\* A run observed after 200 s, longer than the viewport after one zoom out.
ScrollClock == {200000}

----------------------------------------------------------------------------
(* Lines of a stream and their parsing *)

L_present == <<"1", "0.452">>
L_absent == <<"0", "0.452">>
L_two == <<"2", "0.452">>
L_negative == <<"-1", "0.452">>
L_garbage == <<"garbage", "line">>
L_short == <<"1">>
L_badfloat == <<"1", "abc">>
L_chip == <<"get", "status", "chip", "id", ":", "00000303", "BGT60TR13C">>

L_chip_upper == <<"get", "status", "Chip", "ID", ":", "00000303", "BGT60TR13C">>
L_chip_sample == <<"1", "0.452", "chip", "id", ":", "00000303", "BGT60TR13C">>
L_chip_short == <<"chip", "id", ":", "00000303">>
L_chip_other == <<"chip", "id", ":", "00000404", "BGT60UTR11">>

SampleLines == {L_present, L_absent}

\* Lines that hold the identity marker, and one that does not.
IdentityLines == {L_chip, L_chip_upper, L_chip_sample, L_chip_short, L_present}

StdoutLines == {L_present, L_absent, L_two, L_negative, L_garbage, L_short,
                L_badfloat, L_chip}

StderrLines == {<<"spi", "error">>}

\* An optional number: Nothing is Python's None, Some(v) the value v.
Nothing == <<>>

Some(v) == <<v>>

\* int(token): the value, or Nothing where Python raises ValueError.
ParseInt(tok) ==
    CASE tok = "0" -> Some(0)
      [] tok = "1" -> Some(1)
      [] tok = "2" -> Some(2)
      [] tok = "-1" -> Some(-1)
      [] OTHER -> Nothing

\* float(token) in millimetres, or Nothing where Python raises ValueError.
ParseFloat(tok) ==
    CASE tok = "0.452" -> Some(452)
      [] tok = "1.000" -> Some(1000)
      [] tok = "0" -> Some(0)
      [] tok = "1" -> Some(1000)
      [] tok = "2" -> Some(2000)
      [] OTHER -> Nothing

\* str.lower() of a token.
Lower(tok) ==
    CASE tok = "Chip" -> "chip"
      [] tok = "ID" -> "id"
      [] OTHER -> tok

\* 'chip id :' in line.lower()
HasMarker(line) ==
    \E i \in 1..(Len(line) - 2) :
        Lower(line[i]) = "chip" /\ Lower(line[i + 1]) = "id" /\ line[i + 2] = ":"

\* Position of the first "chip id :" of line.split('chip id :'), which
\* compares the letters as they are; 0 when the line has none.
MarkerAt(line) ==
    LET hits == {i \in 1..(Len(line) - 2) :
                    line[i] = "chip" /\ line[i + 1] = "id" /\ line[i + 2] = ":"}
    IN IF hits = {} THEN 0 ELSE CHOOSE i \in hits : \A j \in hits : i <= j

\* parts[1].strip().split(): the tokens between the first marker and the
\* next one (or the end of the line).
ChipInfo(line) ==
    LET rest == SubSeq(line, MarkerAt(line) + 3, Len(line))
    IN IF MarkerAt(line) = 0 THEN <<>>
       ELSE IF MarkerAt(rest) = 0 THEN rest
       ELSE SubSeq(rest, 1, MarkerAt(rest) - 1)

\* Decode with a distance that does not parse taken as 0.0 instead of rejected.
Decode_DefaultDistance(line) ==
    IF Len(line) >= 2 /\ ParseInt(line[1]) # Nothing
    THEN [ok |-> TRUE, raw_presence |-> ParseInt(line[1])[1],
          raw_distance |-> IF ParseFloat(line[2]) # Nothing
                           THEN ParseFloat(line[2])[1] ELSE 0]
    ELSE [ok |-> FALSE, raw_presence |-> 0, raw_distance |-> 0]

\* The decoder's verdict on a line (lines 167-172 and the except clause):
\* ok is FALSE where fewer than two tokens are there or int()/float() raises.
Decode(line) ==
    IF Len(line) >= 2 /\ ParseInt(line[1]) # Nothing /\ ParseFloat(line[2]) # Nothing
    THEN [ok |-> TRUE, raw_presence |-> ParseInt(line[1])[1],
          raw_distance |-> ParseFloat(line[2])[1]]
    ELSE [ok |-> FALSE, raw_presence |-> 0, raw_distance |-> 0]

processed_presence(raw_presence) == raw_presence

processed_distance(raw_presence, raw_distance) ==
    IF raw_presence = 1 THEN raw_distance ELSE 0

\* Every decoded sample queued for plotting, whatever its presence.
QueuedForPlot_Always(presence) == TRUE

\* Whether the decoded sample is queued for plotting.
QueuedForPlot(presence) == presence = 1

----------------------------------------------------------------------------
(* RadarDataCollector *)

\* chip_info of create_log_file: the part of the file name that names the chip.
\* (chip_id[:8] keeps the whole of the 8-character ids of the model.)
LogChipInfo(model, id) ==
    IF model # None /\ id # None THEN <<model, id>> ELSE <<"unknown_chip">>

\* log_filename: the host, the chip and datetime.now() to the second.
LogName(h, model, id, t) == <<h, LogChipInfo(model, id), t \div 1000>>

\* self.log_file is assigned while it holds a handle: the handle is
\* overwritten, not closed, and its file is closed only if the interpreter
\* collects the dropped file object (collected).
Dropped(old_handle, fs, collected) ==
    IF old_handle # Nothing /\ collected
    THEN [fs EXCEPT ![old_handle[1]].open = FALSE]
    ELSE fs

\* What may become of the file object a source drops: collected or not; there
\* is nothing to collect where the source holds no log.
Collections(h) == IF log_file[h] # Nothing THEN BOOLEAN ELSE {FALSE}

\* create_log_file with no test of enable_file_logging.
create_log_file_Always(h, enabled, model, id, old_handle, fs, opened, t, collected) ==
    LET name == LogName(h, model, id, t)
        same == {i \in 1..Len(fs) : fs[i].name = name}
    IN IF ~opened
       THEN [log_file |-> Nothing, files |-> Dropped(old_handle, fs, collected)]
       ELSE IF same # {}
            THEN LET i == CHOOSE i \in same : TRUE
                 IN [log_file |-> Some(i),
                     files |-> [Dropped(old_handle, fs, collected)
                                   EXCEPT ![i].rows = <<>>, ![i].open = TRUE]]
            ELSE [log_file |-> Some(Len(fs) + 1),
                  files |-> Append(Dropped(old_handle, fs, collected),
                                   [name |-> name, host |-> h, open |-> TRUE,
                                    rows |-> <<>>, seen |-> <<>>])]

\* create_log_file at the time t: the new values of log_file and files.
\* opened is whether makedirs/open/write succeed.  open(..., 'w') of a name
\* that is on disk already truncates that file.  (seen records, beside the
\* rows of a file, the rows of the samples decoded while log_file was that
\* file.)
create_log_file(h, enabled, model, id, old_handle, fs, opened, t, collected) ==
    LET name == LogName(h, model, id, t)
        same == {i \in 1..Len(fs) : fs[i].name = name}
    IN IF ~enabled THEN [log_file |-> old_handle, files |-> fs]
       ELSE IF ~opened
       THEN [log_file |-> Nothing, files |-> Dropped(old_handle, fs, collected)]
       ELSE IF same # {}
            THEN LET i == CHOOSE i \in same : TRUE
                 IN [log_file |-> Some(i),
                     files |-> [Dropped(old_handle, fs, collected)
                                   EXCEPT ![i].rows = <<>>, ![i].open = TRUE]]
            ELSE [log_file |-> Some(Len(fs) + 1),
                  files |-> Append(Dropped(old_handle, fs, collected),
                                   [name |-> name, host |-> h, open |-> TRUE,
                                    rows |-> <<>>, seen |-> <<>>])]

\* write_to_log: the new value of files.  written is whether write/flush succeed.
write_to_log(enabled, handle, fs, row, written) ==
    IF handle # Nothing /\ enabled /\ written
    THEN [fs EXCEPT ![handle[1]].rows = Append(@, row)]
    ELSE fs

\* files with row noted as decoded while the file of handle was log_file.
Seen(handle, fs, row) ==
    IF handle # Nothing THEN [fs EXCEPT ![handle[1]].seen = Append(@, row)] ELSE fs

\* The sidecar row of one decoded sample.
LogRow(timestamp, started, presence, distance, raw_presence, raw_distance, line) ==
    [timestamp |-> timestamp,
     relative_time |-> timestamp - (IF started = Nothing THEN timestamp ELSE started[1]),
     presence |-> presence, distance |-> distance,
     raw_presence |-> raw_presence, raw_distance |-> raw_distance, raw_line |-> line]

\* The state after main has built the collectors cs (file logging as
\* configured) and the grapher.
InitWith(cs, logging) ==
    /\ now = start_time
    /\ collectors = cs
    /\ enable_file_logging = logging
    /\ task = [h \in Hosts |-> "created"]
    /\ readers = [h \in Hosts |-> {}]
    /\ pending = [h \in Hosts |-> Nothing]
    /\ running = [h \in Hosts |-> FALSE]
    /\ cstart = [h \in Hosts |-> Nothing]
    /\ chip_id = [h \in Hosts |-> None]
    /\ chip_model = [h \in Hosts |-> None]
    /\ log_file = [h \in Hosts |-> Nothing]
    /\ files = <<>>
    /\ data_queue = [h \in Hosts |-> <<>>]
    /\ log_queue = [h \in Hosts |-> <<>>]
    /\ status_queue = [h \in Hosts |-> <<>>]
    /\ nlines = 0
    /\ data = [h \in Hosts |->
                 [times |-> <<>>, distances |-> <<>>, origins |-> <<>>,
                  line |-> [xdata |-> <<>>, ydata |-> <<>>],
                  connected |-> FALSE, last_data_time |-> Nothing,
                  last_presence |-> Nothing, last_distance |-> Nothing]]
    /\ latest_logs = [h \in Hosts |-> Nothing]
    /\ scrollback_mode = FALSE
    /\ zoom_start = 0
    /\ zoom_duration = time_window
    /\ legend = [h \in Hosts |-> [status |-> "Connecting", chip |-> <<>>]]
    /\ xlim = Nothing
    /\ tpc = 0
    /\ current_time = 0
    /\ legend_needs_update = FALSE
    /\ gui = "open"
    /\ nkeys = 0
    /\ nstops = 0
    /\ decoded = [h \in Hosts |-> <<>>]
    /\ appended = [h \in Hosts |-> <<>>]

\* The wall clock moves on, to one of the instants of clock.
Advance(clock) ==
    /\ \E d \in clock : start_time + d > now /\ now' = start_time + d
    /\ UNCHANGED <<collectors, enable_file_logging, collectorVars, grapherVars, tickVars,
                   gui, nkeys, nstops>>

\* collect_data up to the start of the readers: the connection and the remote
\* command either come up (running = True, start_time recorded) or raise
\* (the except clause sets running = False).
Connect(h) ==
    /\ task[h] = "created"
    /\ \E up \in BOOLEAN :
         IF up
         THEN /\ task' = [task EXCEPT ![h] = "reading"]
              /\ readers' = [readers EXCEPT ![h] = {"stdout", "stderr"}]
              /\ running' = [running EXCEPT ![h] = TRUE]
              /\ cstart' = [cstart EXCEPT ![h] = Some(now)]
         ELSE /\ task' = [task EXCEPT ![h] = "failed"]
              /\ running' = [running EXCEPT ![h] = FALSE]
              /\ UNCHANGED <<readers, cstart>>
    /\ UNCHANGED <<now, collectors, enable_file_logging, pending, chip_id, chip_model, log_file, files,
                   data_queue, log_queue, status_queue, nlines, decoded, grapherVars,
                   tickVars, gui, nkeys, nstops>>

\* ReaderGone where the end of one reader takes every collector's readers down.
ReaderGone_All(h, r) ==
    /\ readers' = [g \in Hosts |-> IF g = h THEN readers[g] \ {r} ELSE {}]
    /\ task' = [g \in Hosts |->
                   IF readers'[g] = {} /\ task[g] = "reading" THEN "finished" ELSE task[g]]

\* One reader loop is over; collect_data returns once both are.
ReaderGone(h, r) ==
    /\ readers' = [readers EXCEPT ![h] = @ \ {r}]
    /\ task' = [task EXCEPT ![h] = IF readers[h] \ {r} = {} THEN "finished" ELSE @]

\* read_stdout from the identity test to the end of the iteration (lines
\* 151-205), for a line already put on the log queue: the identity, the
\* sidecar log, the decoding and the queues.
HandleLine(h, line, opened, written, collected) ==
    LET found == HasMarker(line) /\ MarkerAt(line) # 0
                    /\ Len(ChipInfo(line)) >= 2
        id == IF found THEN ChipInfo(line)[1] ELSE chip_id[h]
        model == IF found THEN ChipInfo(line)[2] ELSE chip_model[h]
        created == IF found
                   THEN create_log_file(h, enable_file_logging, model, id,
                                        log_file[h], files, opened, now,
                                        collected)
                   ELSE [log_file |-> log_file[h], files |-> files]
        d == Decode(line)
        presence == processed_presence(d.raw_presence)
        distance == processed_distance(d.raw_presence, d.raw_distance)
        row == LogRow(now, cstart[h], presence, distance,
                      d.raw_presence, d.raw_distance, line)
    IN /\ chip_id' = [chip_id EXCEPT ![h] = id]
       /\ chip_model' = [chip_model EXCEPT ![h] = model]
       /\ log_file' = [log_file EXCEPT ![h] = created.log_file]
       /\ files' = IF d.ok
                   THEN Seen(created.log_file,
                             write_to_log(enable_file_logging, created.log_file,
                                          created.files, row, written),
                             row)
                   ELSE created.files
       /\ status_queue' = [status_queue EXCEPT ![h] =
                              IF d.ok THEN Append(@, <<now, presence, distance>>)
                              ELSE @]
       /\ data_queue' = [data_queue EXCEPT ![h] =
                            IF d.ok /\ QueuedForPlot(presence)
                            THEN Append(@, <<now, distance, d.raw_presence>>)
                            ELSE @]
       /\ decoded' = [decoded EXCEPT ![h] =
                         IF d.ok /\ d.raw_presence # 0
                         THEN Append(@, <<now, d.raw_distance>>)
                         ELSE @]

\* read_stdout, one iteration: the next line of the remote command's stdout,
\* one of lines, with the file system answering as one of outcomes.
StdoutLine(h, lines, outcomes) ==
    /\ task[h] = "reading"
    /\ "stdout" \in readers[h]
    /\ pending[h] = Nothing
    /\ IF ~running[h]
       THEN /\ ReaderGone(h, "stdout")
            /\ UNCHANGED <<chip_id, chip_model, log_file, files, data_queue,
                           log_queue, status_queue, decoded>>
       ELSE \E line \in lines, opened \in outcomes, written \in outcomes,
                collected \in Collections(h) :
               /\ log_queue' = [log_queue EXCEPT ![h] = Append(@, <<now, "STDOUT", line>>)]
               /\ HandleLine(h, line, opened, written, collected)
               /\ UNCHANGED <<task, readers>>
    /\ UNCHANGED <<now, collectors, enable_file_logging, pending, running, cstart, grapherVars,
                   tickVars, gui, nkeys, nstops>>

\* read_stdout, one iteration, of a stream that delivers budget lines at most.
read_stdout(h, lines, outcomes, budget) ==
    /\ nlines < budget
    /\ nlines' = nlines + 1
    /\ StdoutLine(h, lines, outcomes)

\* read_stdout, one iteration, of a stream that never ends: its lines are not
\* counted, and a line arrives while the queues it goes to hold fewer than
\* QueueCap items.
ReadStdoutOn(h, lines) ==
    /\ Len(log_queue[h]) < QueueCap
    /\ Len(status_queue[h]) < QueueCap
    /\ StdoutLine(h, lines, {TRUE})
    /\ UNCHANGED nlines

\* read_stdout up to the first of the two assignments of an identity line
\* (lines 139-159): the line is on the log queue and chip_id is assigned,
\* chip_model is not yet.  The thread of update_plot and main's thread may
\* run before the reader goes on.
AssignChipId(h, lines) ==
    /\ task[h] = "reading"
    /\ "stdout" \in readers[h]
    /\ pending[h] = Nothing
    /\ running[h]
    /\ nlines < SidecarLines
    /\ nlines' = nlines + 1
    /\ \E line \in lines :
         /\ HasMarker(line) /\ MarkerAt(line) # 0 /\ Len(ChipInfo(line)) >= 2
         /\ log_queue' = [log_queue EXCEPT ![h] = Append(@, <<now, "STDOUT", line>>)]
         /\ chip_id' = [chip_id EXCEPT ![h] = ChipInfo(line)[1]]
         /\ pending' = [pending EXCEPT ![h] = Some(line)]
    /\ UNCHANGED <<now, collectors, enable_file_logging, task, readers, running, cstart,
                   chip_model, log_file, files, data_queue, status_queue, decoded,
                   grapherVars, tickVars, gui, nkeys, nstops>>

\* read_stdout from the second assignment to the end of the iteration
\* (lines 160-205).
AssignChipModel(h) ==
    /\ pending[h] # Nothing
    /\ pending' = [pending EXCEPT ![h] = Nothing]
    /\ \E opened \in BOOLEAN, written \in BOOLEAN, collected \in Collections(h) :
         HandleLine(h, pending[h][1], opened, written, collected)
    /\ UNCHANGED <<now, collectors, enable_file_logging, task, readers, running, cstart,
                   log_queue, nlines, grapherVars, tickVars, gui, nkeys, nstops>>

\* read_stdout with a file system that may fail, within the lines of a run.
ReadStdout(h, lines) == read_stdout(h, lines, BOOLEAN, MaxLines)

\* read_stderr, one iteration: the next line of the remote command's stderr.
ReadStderr(h) ==
    /\ task[h] = "reading"
    /\ "stderr" \in readers[h]
    /\ pending[h] = Nothing
    /\ nlines < MaxLines
    /\ nlines' = nlines + 1
    /\ IF ~running[h]
       THEN /\ ReaderGone(h, "stderr")
            /\ UNCHANGED log_queue
       ELSE /\ \E line \in StderrLines :
                 log_queue' = [log_queue EXCEPT ![h] = Append(@, <<now, "STDERR", line>>)]
            /\ UNCHANGED <<task, readers>>
    /\ UNCHANGED <<now, collectors, enable_file_logging, pending, running, cstart, chip_id, chip_model,
                   log_file, files, data_queue, status_queue, decoded, grapherVars,
                   tickVars, gui, nkeys, nstops>>

\* A stream of the remote command ends or breaks: the reader's async for is
\* over (gather(return_exceptions=True) keeps an exception to itself).
StreamEnd(h) ==
    /\ task[h] = "reading"
    /\ pending[h] = Nothing
    /\ \E r \in readers[h] : ReaderGone(h, r)
    /\ UNCHANGED <<now, collectors, enable_file_logging, pending, running, cstart, chip_id, chip_model,
                   log_file, files, data_queue, log_queue, status_queue, nlines,
                   decoded, grapherVars, tickVars, gui, nkeys, nstops>>

\* The collector stop() is called on next, in the order of main's loop.
NextStopped == collectors[(nstops % NumHosts) + 1]

\* Stop that marks the stopped source disconnected in the grapher too.
Stop_Disconnects ==
    /\ gui = "closed"
    /\ nstops < MaxStops
    /\ nstops' = nstops + 1
    /\ LET h == NextStopped
       IN /\ running' = [running EXCEPT ![h] = FALSE]
          /\ files' = IF log_file[h] # Nothing
                      THEN [files EXCEPT ![log_file[h][1]].open = FALSE]
                      ELSE files
          /\ log_file' = [log_file EXCEPT ![h] = Nothing]
          /\ data' = [data EXCEPT ![h].connected = FALSE]
    /\ UNCHANGED <<now, collectors, enable_file_logging, pending, task, readers, cstart, chip_id,
                   chip_model, data_queue, log_queue, status_queue, nlines,
                   decoded, latest_logs, scrollback_mode, zoom_start, zoom_duration,
                   legend, xlim, appended, tickVars, gui, nkeys>>

\* RadarDataCollector.stop, called by main once the window is closed.
Stop ==
    /\ gui = "closed"
    /\ nstops < MaxStops
    /\ nstops' = nstops + 1
    /\ LET h == NextStopped
       IN /\ running' = [running EXCEPT ![h] = FALSE]
          /\ files' = IF log_file[h] # Nothing
                      THEN [files EXCEPT ![log_file[h][1]].open = FALSE]
                      ELSE files
          /\ log_file' = [log_file EXCEPT ![h] = Nothing]
    /\ UNCHANGED <<now, collectors, enable_file_logging, pending, task, readers, cstart, chip_id,
                   chip_model, data_queue, log_queue, status_queue, nlines,
                   decoded, grapherVars, tickVars, gui, nkeys>>

----------------------------------------------------------------------------
(* RealTimeGrapher.update_plot *)

Last(q) == q[Len(q)]

Max(a, b) == IF a >= b THEN a ELSE b

Min(a, b) == IF a <= b THEN a ELSE b

\* LegendStatus without the Disconnected branch.
LegendStatus_NoDisconnected(hd) ==
    IF hd.connected THEN "Connected" ELSE "Connecting"

\* The status update_legend shows for a host.
LegendStatus(hd) ==
    IF hd.connected THEN "Connected"
    ELSE IF hd.last_data_time # Nothing THEN "Disconnected"
    ELSE "Connecting"

\* DrainStatus that keeps the first item taken instead of the last.
DrainStatus_First(hd, q, ct) ==
    IF q = <<>> THEN hd
    ELSE [hd EXCEPT !.last_data_time = Some(ct),
                    !.last_presence = Some(q[1][2]),
                    !.last_distance = Some(q[1][3])]

\* The status loop: every queued status item is taken; each sets
\* last_data_time to the tick's current_time and the last presence/distance.
DrainStatus(hd, q, ct) ==
    IF q = <<>> THEN hd
    ELSE [hd EXCEPT !.last_data_time = Some(ct),
                    !.last_presence = Some(Last(q)[2]),
                    !.last_distance = Some(Last(q)[3])]

\* DrainData that appends the first queued point and drops the others.
DrainData_FirstOnly(hd, q) ==
    IF q = <<>> THEN hd
    ELSE [hd EXCEPT !.times = Append(@, q[1][1] - start_time),
                    !.distances = Append(@, q[1][2]),
                    !.origins = Append(@, q[1][3])]

\* DrainData that takes the newest queued point first.
RECURSIVE DrainData_NewestFirst(_, _)
DrainData_NewestFirst(hd, q) ==
    IF q = <<>> THEN hd
    ELSE DrainData_NewestFirst([hd EXCEPT !.times = Append(@, Last(q)[1] - start_time),
                                          !.distances = Append(@, Last(q)[2]),
                                          !.origins = Append(@, Last(q)[3])],
                               SubSeq(q, 1, Len(q) - 1))

\* The data loop: every queued point is appended, at timestamp - start_time.
\* (origins records, beside each point, the raw presence of its sample.)
RECURSIVE DrainData(_, _)
DrainData(hd, q) ==
    IF q = <<>> THEN hd
    ELSE DrainData([hd EXCEPT !.times = Append(@, q[1][1] - start_time),
                              !.distances = Append(@, q[1][2]),
                              !.origins = Append(@, q[1][3])],
                   Tail(q))

\* NextConnected with the timeout reached at, not after, connection_timeout.
NextConnected_AtTimeout(connected, received, last_data_time, ct) ==
    IF received THEN TRUE
    ELSE IF last_data_time # Nothing /\ ct - last_data_time[1] >= connection_timeout
         THEN FALSE
         ELSE connected

\* NextConnected that notes the event and forgets to set connected.
NextConnected_Forgets(connected, received, last_data_time, ct) ==
    IF received THEN connected
    ELSE IF last_data_time # Nothing /\ ct - last_data_time[1] > connection_timeout
         THEN FALSE
         ELSE connected

\* The connection status after the loops (lines 344-356).
NextConnected(connected, received, last_data_time, ct) ==
    IF received THEN TRUE
    ELSE IF last_data_time # Nothing /\ ct - last_data_time[1] > connection_timeout
         THEN FALSE
         ELSE connected

\* MarkConnection that empties the buffer of a source it marks disconnected.
MarkConnection_ClearsOnTimeout(hd, received, ct) ==
    IF hd.connected /\ ~NextConnected(hd.connected, received, hd.last_data_time, ct)
    THEN [hd EXCEPT !.connected = FALSE, !.times = <<>>, !.distances = <<>>,
                    !.origins = <<>>]
    ELSE [hd EXCEPT !.connected =
             NextConnected(hd.connected, received, hd.last_data_time, ct)]

\* Lines 344-356: connected is the only thing the connection update writes.
MarkConnection(hd, received, ct) ==
    [hd EXCEPT !.connected =
        NextConnected(hd.connected, received, hd.last_data_time, ct)]

\* LegendNeedsUpdate that notes a connection and not a disconnection.
LegendNeedsUpdate_OnConnect(flag, was_connected, connected) ==
    flag \/ (~was_connected /\ connected)

\* legend_needs_update after the pass over one collector: set where the
\* pass changed connected (lines 346-348 and 354-356), kept otherwise.
LegendNeedsUpdate(flag, was_connected, connected) ==
    flag \/ was_connected # connected

\* Evict that removes the points on the cutoff too.
RECURSIVE Evict_AtCutoff(_, _)
Evict_AtCutoff(hd, cutoff) ==
    IF hd.times # <<>> /\ hd.times[1] <= cutoff
    THEN Evict_AtCutoff([hd EXCEPT !.times = Tail(@), !.distances = Tail(@),
                                   !.origins = Tail(@)], cutoff)
    ELSE hd

\* The eviction loop: popleft while the oldest time is before the cutoff.
RECURSIVE Evict(_, _)
Evict(hd, cutoff) ==
    IF hd.times # <<>> /\ hd.times[1] < cutoff
    THEN Evict([hd EXCEPT !.times = Tail(@), !.distances = Tail(@),
                          !.origins = Tail(@)], cutoff)
    ELSE hd

\* RemoveOld that evicts one point at most in a tick.
RemoveOld_One(hd, scrollback, current_relative_time) ==
    IF ~scrollback /\ hd.times # <<>>
                  /\ hd.times[1] < current_relative_time - time_window
    THEN [hd EXCEPT !.times = Tail(@), !.distances = Tail(@), !.origins = Tail(@)]
    ELSE hd

\* RemoveOld that evicts in scrollback mode too.
RemoveOld_Always(hd, scrollback, current_relative_time) ==
    Evict(hd, current_relative_time - time_window)

\* RemoveOld that never evicts.
RemoveOld_Never(hd, scrollback, current_relative_time) == hd

\* Lines 358-363: eviction happens only outside scrollback mode.
RemoveOld(hd, scrollback, current_relative_time) ==
    IF ~scrollback THEN Evict(hd, current_relative_time - time_window) ELSE hd

\* Lines 365-367: the plot line takes the buffer when the buffer is not empty.
SetLine(hd) ==
    IF hd.times # <<>> /\ hd.distances # <<>>
    THEN [hd EXCEPT !.line = [xdata |-> hd.times, ydata |-> hd.distances]]
    ELSE hd

\* update_plot, lines 309-313: the clock is read once, at the start.
TickBegin ==
    /\ gui = "open"
    /\ tpc = 0
    /\ tpc' = 1
    /\ current_time' = now
    /\ legend_needs_update' = FALSE
    /\ UNCHANGED <<now, collectors, enable_file_logging, collectorVars, grapherVars,
                   gui, nkeys, nstops>>

\* update_plot, lines 316-367: one pass of the loop over the collectors.  The
\* status loop and the data loop of the pass are one step: what the reader
\* puts on the queues while the tick is elsewhere (after the clock was read,
\* during the pass over another collector) is seen by the loops.
TickHost ==
    /\ tpc \in 1..NumHosts
    /\ LET h == collectors[tpc]
           received == status_queue[h] # <<>>
           hd1 == DrainStatus(data[h], status_queue[h], current_time)
           hd2 == DrainData(hd1, data_queue[h])
           hd3 == MarkConnection(hd2, received, current_time)
           hd4 == RemoveOld(hd3, scrollback_mode, current_time - start_time)
       IN /\ data' = [data EXCEPT ![h] = SetLine(hd4)]
          /\ status_queue' = [status_queue EXCEPT ![h] = <<>>]
          /\ data_queue' = [data_queue EXCEPT ![h] = <<>>]
          /\ appended' = [appended EXCEPT ![h] =
                             @ \o [i \in 1..(Len(hd2.times) - Len(data[h].times)) |->
                                     <<hd2.times[Len(data[h].times) + i],
                                       hd2.distances[Len(data[h].times) + i]>>]]
          /\ legend_needs_update' =
                LegendNeedsUpdate(legend_needs_update, data[h].connected, hd3.connected)
    /\ tpc' = tpc + 1
    /\ UNCHANGED <<now, collectors, enable_file_logging, pending, task, readers, running, cstart,
                   chip_id, chip_model, log_file, files, log_queue, nlines,
                   latest_logs, scrollback_mode, zoom_start, zoom_duration,
                   legend, xlim, current_time, gui, nkeys, nstops, decoded>>

\* chip_id[:6] of update_legend.
FirstSix(id) ==
    CASE id = "00000303" -> "000003"
      [] id = "00000404" -> "000004"
      [] OTHER -> id

\* One label of update_legend: the status and the chip information.
LegendLabel(hd, model, id) ==
    [status |-> LegendStatus(hd),
     chip |-> IF model # None /\ id # None THEN <<model, FirstSix(id)>>
              ELSE IF model # None THEN <<model>>
              ELSE <<>>]

\* Lines 369-384: the x limits <<time_start, time_end>> handed to the axes.
TimeLimits(scrollback, zstart, zduration, current_relative_time) ==
    IF scrollback
    THEN IF zstart + zduration > current_relative_time
         THEN <<Max(0, current_relative_time - zduration), current_relative_time>>
         ELSE <<zstart, zstart + zduration>>
    ELSE <<current_relative_time - time_window, current_relative_time>>

\* update_log_panel, lines 456-462: the latest raw line of a host.
LatestLog(latest, q) ==
    IF q = <<>> THEN latest
    ELSE Some(<<Last(q)[1] - start_time, Last(q)[2], Last(q)[3]>>)

\* update_plot, lines 369-418: the x limits, the legend and the log panel.
TickEnd ==
    /\ tpc = NumHosts + 1
    /\ tpc' = 0
    /\ xlim' = Some(TimeLimits(scrollback_mode, zoom_start, zoom_duration,
                               current_time - start_time))
    /\ legend' = IF legend_needs_update
                 THEN [h \in Hosts |-> LegendLabel(data[h], chip_model[h], chip_id[h])]
                 ELSE legend
    /\ latest_logs' = [h \in Hosts |-> LatestLog(latest_logs[h], log_queue[h])]
    /\ log_queue' = [h \in Hosts |-> <<>>]
    /\ current_time' = 0
    /\ legend_needs_update' = FALSE
    /\ UNCHANGED <<now, collectors, enable_file_logging, pending, task, readers, running, cstart,
                   chip_id, chip_model, log_file, files, data_queue, status_queue,
                   nlines, data, scrollback_mode, zoom_start, zoom_duration,
                   gui, nkeys, nstops, decoded, appended>>

\* update_plot, lines 369-413: the x limits and the legend, before
\* update_log_panel is entered.
TickLegend ==
    /\ tpc = NumHosts + 1
    /\ tpc' = NumHosts + 2
    /\ xlim' = Some(TimeLimits(scrollback_mode, zoom_start, zoom_duration,
                               current_time - start_time))
    /\ legend' = IF legend_needs_update
                 THEN [h \in Hosts |-> LegendLabel(data[h], chip_model[h], chip_id[h])]
                 ELSE legend
    /\ UNCHANGED <<now, collectors, enable_file_logging, collectorVars, data, latest_logs,
                   scrollback_mode, zoom_start, zoom_duration, appended, current_time,
                   legend_needs_update, gui, nkeys, nstops>>

\* update_log_panel, lines 456-460, one iteration of the loop over a log
\* queue: the queue is not empty and get_nowait() takes its first item.
LogGet ==
    /\ tpc \in (NumHosts + 2)..(2 * NumHosts + 1)
    /\ LET h == collectors[tpc - NumHosts - 1]
       IN /\ log_queue[h] # <<>>
          /\ latest_logs' = [latest_logs EXCEPT ![h] = LatestLog(@, <<Head(log_queue[h])>>)]
          /\ log_queue' = [log_queue EXCEPT ![h] = Tail(@)]
    /\ UNCHANGED <<now, collectors, enable_file_logging, task, readers, pending, running,
                   cstart, chip_id, chip_model, log_file, files, data_queue, status_queue,
                   nlines, decoded, data, scrollback_mode, zoom_start, zoom_duration,
                   legend, xlim, appended, tickVars, gui, nkeys, nstops>>

\* update_log_panel, line 456: the log queue is found empty and the loop
\* over it ends; after the last collector update_plot returns.
LogNext ==
    /\ tpc \in (NumHosts + 2)..(2 * NumHosts + 1)
    /\ log_queue[collectors[tpc - NumHosts - 1]] = <<>>
    /\ IF tpc = 2 * NumHosts + 1
       THEN tpc' = 0 /\ current_time' = 0 /\ legend_needs_update' = FALSE
       ELSE tpc' = tpc + 1 /\ UNCHANGED <<current_time, legend_needs_update>>
    /\ UNCHANGED <<now, collectors, enable_file_logging, collectorVars, grapherVars,
                   gui, nkeys, nstops>>

----------------------------------------------------------------------------
(* RealTimeGrapher.on_key_press; the products by 0.8, 1.25 and 0.1 are taken  *)
(* in whole milliseconds                                                     *)

Keys == {"s", "left", "right", "+", "=", "-", "home", "end", "x"}

\* The new <<scrollback_mode, zoom_start, zoom_duration>> after a key.
KeyEffect(key, scrollback, zstart, zduration, t) ==
    IF key = "s"
    THEN IF ~scrollback THEN <<TRUE, Max(0, t - zduration), zduration>>
         ELSE <<FALSE, zstart, zduration>>
    ELSE IF ~scrollback THEN <<scrollback, zstart, zduration>>
    ELSE CASE key = "left" -> <<TRUE, Max(0, zstart - zduration \div 10), zduration>>
           [] key = "right" ->
                <<TRUE, Min(Max(0, t - zduration), zstart + zduration \div 10), zduration>>
           [] key \in {"+", "="} ->
                LET nd == Max(MinZoom, (zduration * 8) \div 10)
                IN <<TRUE, Max(0, zstart + zduration \div 2 - nd \div 2), nd>>
           [] key = "-" ->
                LET nd == Min(MaxZoom, (zduration * 125) \div 100)
                IN <<TRUE, Max(0, zstart + zduration \div 2 - nd \div 2), nd>>
           [] key = "home" -> <<TRUE, 0, zduration>>
           [] key = "end" -> <<TRUE, Max(0, t - zduration), zduration>>
           [] OTHER -> <<scrollback, zstart, zduration>>

\* on_key_press runs on the thread of update_plot, between two ticks.
OnKeyPress(keys) ==
    /\ gui = "open"
    /\ tpc = 0
    /\ nkeys < MaxKeys
    /\ nkeys' = nkeys + 1
    /\ \E key \in keys :
         LET e == KeyEffect(key, scrollback_mode, zoom_start, zoom_duration,
                            now - start_time)
         IN /\ scrollback_mode' = e[1]
            /\ zoom_start' = e[2]
            /\ zoom_duration' = e[3]
    /\ UNCHANGED <<now, collectors, enable_file_logging, collectorVars, data, latest_logs,
                   legend, xlim, appended, tickVars, gui, nstops>>

\* The window is closed: plt.show() returns and main goes on to stop().
CloseGui ==
    /\ gui = "open"
    /\ tpc = 0
    /\ gui' = "closed"
    /\ UNCHANGED <<now, collectors, enable_file_logging, collectorVars, grapherVars, tickVars,
                   nkeys, nstops>>

----------------------------------------------------------------------------

(* The default configuration: one host, file logging off.  The stream     *)
(* carries presence and absence samples, observed around the liveness     *)
(* timeout.                                                               *)

Init == InitWith(<<"Host-1">>, FALSE)

Next ==
    \/ Advance(LivenessClock)
    \/ \E h \in Hosts : Connect(h)
    \/ \E h \in Hosts : ReadStdout(h, SampleLines)
    \/ TickBegin
    \/ TickHost
    \/ TickEnd

Spec == Init /\ [][Next]_vars

(* The same configuration observed around the window length, with the     *)
(* operator at the keyboard.                                              *)

NextWindow ==
    \/ Advance(WindowClock)
    \/ \E h \in Hosts : Connect(h)
    \/ \E h \in Hosts : ReadStdout(h, SampleLines)
    \/ TickBegin
    \/ TickHost
    \/ TickEnd
    \/ OnKeyPress(Keys)

SpecWindow == Init /\ [][NextWindow]_vars

(* The same observed around the window length with no key pressed: the    *)
(* plot stays in sliding mode.                                            *)

NextSliding ==
    \/ Advance(WindowClock)
    \/ \E h \in Hosts : Connect(h)
    \/ \E h \in Hosts : ReadStdout(h, SampleLines)
    \/ TickBegin
    \/ TickHost
    \/ TickEnd

SpecSliding == Init /\ [][NextSliding]_vars

(* The same configuration with the operator scrolling and zooming after   *)
(* 200 s.                                                                 *)

NextScroll ==
    \/ Advance(ScrollClock)
    \/ \E h \in Hosts : Connect(h)
    \/ \E h \in Hosts : ReadStdout(h, {L_present})
    \/ TickBegin
    \/ TickHost
    \/ TickEnd
    \/ OnKeyPress(Keys)

SpecScroll == Init /\ [][NextScroll]_vars

(* File logging on, and a stream that carries every kind of line.         *)

InitDecode == InitWith(<<"Host-1">>, TRUE)

NextDecode ==
    \/ Advance({5000})
    \/ \E h \in Hosts : Connect(h)
    \/ \E h \in Hosts : ReadStdout(h, StdoutLines)
    \/ \E h \in Hosts : ReadStderr(h)
    \/ \E h \in Hosts : StreamEnd(h)
    \/ TickBegin
    \/ TickHost
    \/ TickEnd

SpecDecode == InitDecode /\ [][NextDecode]_vars

(* Two hosts with file logging on and a file system that does not fail,   *)
(* each of which may fail to connect or lose its streams.                 *)

InitTwo == InitWith(<<"Host-1", "Host-2">>, TRUE)

NextTwo ==
    \/ \E h \in Hosts : Connect(h)
    \/ \E h \in Hosts : read_stdout(h, {L_present, L_chip}, {TRUE}, MaxLines)
    \/ \E h \in Hosts : StreamEnd(h)
    \/ TickBegin
    \/ TickHost
    \/ TickEnd

SpecTwo == InitTwo /\ [][NextTwo]_vars

(* Two hosts, file logging off, observed at the start and 16 s later.     *)

InitLiveTwo == InitWith(<<"Host-1", "Host-2">>, FALSE)

NextLiveTwo ==
    \/ Advance({16000})
    \/ \E h \in Hosts : Connect(h)
    \/ \E h \in Hosts : ReadStdout(h, {L_present})
    \/ TickBegin
    \/ TickHost
    \/ TickEnd

SpecLiveTwo == InitLiveTwo /\ [][NextLiveTwo]_vars

(* File logging on and a file system that does not fail: what the reader  *)
(* leaves in the sidecar log of a stream of identity lines, samples and   *)
(* other lines.                                                           *)

NextSidecar ==
    \/ Advance({1000})
    \/ \E h \in Hosts : Connect(h)
    \/ \E h \in Hosts :
          read_stdout(h, {L_chip, L_present, L_absent, L_garbage}, {TRUE}, SidecarLines)
    \/ \E h \in Hosts : ReadStderr(h)
    \/ \E h \in Hosts : StreamEnd(h)

SpecSidecar == InitDecode /\ [][NextSidecar]_vars

(* The same stream with file logging off.                                 *)

SpecNoLog == Init /\ [][NextSidecar]_vars

(* The default configuration up to the shutdown: the window is closed and *)
(* main stops the collectors while their tasks are still on their thread. *)

NextStop ==
    \/ \E h \in Hosts : Connect(h)
    \/ \E h \in Hosts : ReadStdout(h, {L_present})
    \/ \E h \in Hosts : ReadStderr(h)
    \/ TickBegin
    \/ TickHost
    \/ TickEnd
    \/ CloseGui
    \/ Stop

SpecStop == Init /\ [][NextStop]_vars

(* The default configuration while the window stays open: the animation   *)
(* timer keeps calling update_plot, which goes on from step to step.      *)

NextTicking ==
    \/ Advance({16000})
    \/ \E h \in Hosts : Connect(h)
    \/ \E h \in Hosts : ReadStdout(h, SampleLines)
    \/ TickBegin
    \/ TickHost
    \/ TickEnd

SpecTicking ==
    Init /\ [][NextTicking]_vars
         /\ WF_vars(TickBegin) /\ WF_vars(TickHost) /\ WF_vars(TickEnd)

(* The default configuration with a stream that never ends, the log panel *)
(* followed item by item.  The thread of the readers and the thread of    *)
(* update_plot are each scheduled again and again.                        *)

ReaderThread ==
    \/ \E h \in Hosts : Connect(h)
    \/ \E h \in Hosts : ReadStdoutOn(h, {L_absent, L_garbage})

PlotThread ==
    \/ TickBegin
    \/ TickHost
    \/ TickLegend
    \/ LogGet
    \/ LogNext

NextEndless == ReaderThread \/ PlotThread

SpecEndless ==
    Init /\ [][NextEndless]_vars /\ WF_vars(ReaderThread) /\ WF_vars(PlotThread)

(* The default configuration with the reader on its thread and            *)
(* update_plot on its own: a stream in which the identity of the device   *)
(* changes, the reader observed between its two assignments.              *)

NextThreads ==
    \/ \E h \in Hosts : Connect(h)
    \/ \E h \in Hosts : read_stdout(h, {L_present}, {TRUE}, SidecarLines)
    \/ \E h \in Hosts : AssignChipId(h, {L_chip, L_chip_other})
    \/ \E h \in Hosts : AssignChipModel(h)
    \/ TickBegin
    \/ TickHost
    \/ TickEnd

SpecThreads == Init /\ [][NextThreads]_vars

(* The default configuration from the start to the shutdown, with the     *)
(* operator at the keyboard and a check 16 s after the start.             *)

NextWhole ==
    \/ Advance({16000})
    \/ \E h \in Hosts : Connect(h)
    \/ \E h \in Hosts : ReadStdout(h, {L_present})
    \/ \E h \in Hosts : ReadStderr(h)
    \/ \E h \in Hosts : StreamEnd(h)
    \/ TickBegin
    \/ TickHost
    \/ TickEnd
    \/ OnKeyPress(Keys)
    \/ CloseGui
    \/ Stop

SpecWhole == Init /\ [][NextWhole]_vars

(* File logging on and a file system that does not fail: a stream with    *)
(* identity lines of several shapes.                                      *)

NextIdentity ==
    \/ \E h \in Hosts : Connect(h)
    \/ \E h \in Hosts : read_stdout(h, IdentityLines, {TRUE}, MaxLines)
    \/ \E h \in Hosts : ReadStderr(h)
    \/ \E h \in Hosts : StreamEnd(h)

SpecIdentity == InitDecode /\ [][NextIdentity]_vars

(* The shutdown with file logging on and a file system that does not fail. *)

NextShutdown ==
    \/ \E h \in Hosts : Connect(h)
    \/ \E h \in Hosts : read_stdout(h, {L_chip, L_present}, {TRUE}, MaxLines)
    \/ \E h \in Hosts : StreamEnd(h)
    \/ CloseGui
    \/ Stop

SpecShutdown == InitDecode /\ [][NextShutdown]_vars

----------------------------------------------------------------------------
(* What the protocol says of a line, read off its tokens *)

\* The line carries a sample: two tokens or more, an integer and a float.
CarriesSample(line) ==
    Len(line) >= 2 /\ ParseInt(line[1]) # Nothing /\ ParseFloat(line[2]) # Nothing

\* The integer presence flag and the distance the line carries.
FlagOf(line) == ParseInt(line[1])[1]

DistanceOf(line) == ParseFloat(line[2])[1]

\* This step is read_stdout handling the line l of host h.
Handled(h, l) == log_queue'[h] = Append(log_queue[h], <<now, "STDOUT", l>>)

\* The rows of the sidecar file host h holds (none when it holds no file).
RowsOf(handle, fs) == IF handle = Nothing THEN <<>> ELSE fs[handle[1]].rows

\* This step is update_plot's pass over the collector h.
TickHostStep(h) == tpc \in 1..NumHosts /\ collectors[tpc] = h /\ tpc' = tpc + 1

\* update_plot has passed the collector h and not yet returned.
Passed(h) == \E i \in 1..NumHosts : collectors[i] = h /\ tpc > i

IsPrefix(a, b) == Len(a) <= Len(b) /\ SubSeq(b, 1, Len(a)) = a

\* The times span at most the window length, or there is at most one.
WithinWindow(times) ==
    \A i, j \in 1..Len(times) : times[i] - times[j] <= time_window

\* This step is update_plot's end: the x limits, the legend, the log panel.
TickEndStep == tpc = NumHosts + 1 /\ tpc' = 0

\* The points <<time, distance>> of two parallel sequences.
Points(xs, ys) == [i \in 1..Len(xs) |-> <<xs[i], ys[i]>>]

\* The points whose time lies in [lo, hi], in order.
Between(points, lo, hi) ==
    SelectSeq(points, LAMBDA p : lo <= p[1] /\ p[1] <= hi)

\* The series the axes show of a plot line: its points within the x limits.
Shown(line, limits) ==
    Between(Points(line.xdata, line.ydata), limits[1][1], limits[1][2])

\* The points of the presence-true samples the reader of h decoded so far.
PresencePoints(h) ==
    [i \in 1..Len(decoded[h]) |-> <<decoded[h][i][1] - start_time, decoded[h][i][2]>>]

\* This step is a failure of the task of h: it could not connect, or one
\* of its streams ended or broke.
FailureStep(h) ==
    \/ task[h] = "created" /\ task'[h] = "failed"
    \/ task[h] = "reading" /\ readers'[h] # readers[h]

\* The task of h is over.
Over(h) == task[h] \in {"failed", "finished"}

\* The sidecar files of host h, as they are on disk.
FilesOf(h, fs) == SelectSeq(fs, LAMBDA f : f.host = h)

\* stop() has been called on the collector h.
Stopped(h) == \E i \in 1..NumHosts : collectors[i] = h /\ nstops >= i

\* This step is a sample of h whose write to the sidecar log failed: the
\* sample was decoded while a log was held, and the log got no row.
WriteFailed(h) ==
    \E i \in 1..Len(files) :
        /\ files[i].host = h
        /\ Len(files'[i].seen) > Len(files[i].seen)
        /\ files'[i].rows = files[i].rows

\* The tokens that follow the first identity marker of the line, the marker
\* taken in any letter case; none when the line has no marker.
AfterMarker(line) ==
    LET hits == {i \in 1..(Len(line) - 2) :
                    /\ Lower(line[i]) = "chip" /\ Lower(line[i + 1]) = "id"
                    /\ line[i + 2] = ":"}
    IN IF hits = {} THEN <<>>
       ELSE SubSeq(line, (CHOOSE i \in hits : \A j \in hits : i <= j) + 3, Len(line))

\* The points the data queue of h holds, at their relative times.
QueuedPoints(h) ==
    [i \in 1..Len(data_queue[h]) |->
        <<data_queue[h][i][1] - start_time, data_queue[h][i][2]>>]

\* What the legend shows of a device whose identity line is line.
ChipShown(line) == <<AfterMarker(line)[2], FirstSix(AfterMarker(line)[1])>>

----------------------------------------------------------------------------
(* Claims *)

\* C1 (as stated): for every stdout line that decodes, the processed
\* distance put on the status queue, on the data queue and in the sidecar row
\* is the raw distance when presence is true (a non-zero flag) and 0 when
\* presence is false, whatever the raw distance.
C1_ZeroingRule ==
    [][\A h \in Hosts, l \in StdoutLines :
          Handled(h, l) /\ CarriesSample(l) =>
              LET expected == IF FlagOf(l) # 0 THEN DistanceOf(l) ELSE 0
              IN /\ Len(status_queue'[h]) = Len(status_queue[h]) + 1
                 /\ Last(status_queue'[h])[3] = expected
                 /\ data_queue'[h] # data_queue[h] =>
                        Last(data_queue'[h])[2] = expected
                 /\ RowsOf(log_file'[h], files') # RowsOf(log_file[h], files) =>
                        Last(RowsOf(log_file'[h], files')).distance = expected]_vars

\* C3 (as stated): for a line whose first token is an integer, any non-zero
\* flag is treated as presence 1 (presence 1 is emitted, the processed
\* distance is the raw distance, the sample is queued for the window buffer),
\* and only the flag 0 as presence 0.
C3_NonZeroIsPresence ==
    [][\A h \in Hosts, l \in StdoutLines :
          Handled(h, l) /\ CarriesSample(l) =>
              IF FlagOf(l) # 0
              THEN /\ status_queue'[h] =
                        Append(status_queue[h], <<now, 1, DistanceOf(l)>>)
                   /\ Len(data_queue'[h]) = Len(data_queue[h]) + 1
                   /\ Last(data_queue'[h])[2] = DistanceOf(l)
              ELSE /\ status_queue'[h] = Append(status_queue[h], <<now, 0, 0>>)
                   /\ data_queue'[h] = data_queue[h]]_vars

\* C4: a line with fewer than two tokens, or whose first token is no integer
\* or whose second is no float, puts nothing on the status or data queue and
\* leaves the reader running, ready for the next line of the stream.
C4_RejectedLineSkipped ==
    [][\A h \in Hosts, l \in StdoutLines :
          Handled(h, l) /\ ~CarriesSample(l) =>
              /\ status_queue'[h] = status_queue[h]
              /\ data_queue'[h] = data_queue[h]
              /\ task'[h] = "reading"
              /\ "stdout" \in readers'[h]
              /\ running'[h]]_vars

\* C4's case: a rejected line was followed by a line that was decoded.
C4_Witness ==
    \E h \in Hosts :
        /\ Len(log_queue[h]) = 2
        /\ log_queue[h][1][3] = L_garbage
        /\ log_queue[h][2][3] = L_present
        /\ Len(status_queue[h]) = 1
        /\ Len(data_queue[h]) = 1

\* C2: no point of a window buffer (nor a point queued for it) comes from a
\* sample whose presence was false; a tick that takes such a sample still
\* counts it as an event (the host is connected, its last event time is the
\* tick's) and records it as the latest presence and distance.
C2_AbsentNeverPlotted ==
    /\ [](\A h \in Hosts :
            /\ \A i \in 1..Len(data[h].origins) : data[h].origins[i] # 0
            /\ \A i \in 1..Len(data_queue[h]) : data_queue[h][i][3] # 0
            /\ Len(data[h].origins) = Len(data[h].times))
    /\ [][\A h \in Hosts :
            TickHostStep(h) /\ status_queue[h] # <<>>
                            /\ Last(status_queue[h])[2] = 0 =>
                /\ data'[h].connected
                /\ data'[h].last_data_time = Some(current_time)
                /\ data'[h].last_presence = Some(0)
                /\ data'[h].last_distance = Some(Last(status_queue[h])[3])]_vars

\* C2's case: a tick took a presence-false sample, which made the host
\* connected and is its latest sample, and the window buffer stayed empty.
C2_Witness ==
    \E h \in Hosts :
        /\ Passed(h)
        /\ data[h].connected
        /\ data[h].last_data_time = Some(current_time)
        /\ data[h].last_presence = Some(0)
        /\ data[h].times = <<>>

\* C5: a tick that drains at least one decoded sample of a source leaves the
\* source Connected, whatever it was before, with its last event time equal
\* to the tick's now.
C5_EventConnects ==
    [][\A h \in Hosts :
          TickHostStep(h) /\ status_queue[h] # <<>> =>
              /\ data'[h].connected
              /\ LegendStatus(data'[h]) = "Connected"
              /\ data'[h].last_data_time = Some(current_time)]_vars

\* C5's case: a source the legend still shows Disconnected has just been
\* made Connected by the events of the tick in progress.
C5_Witness ==
    \E h \in Hosts :
        /\ Passed(h)
        /\ legend[h].status = "Disconnected"
        /\ data[h].connected
        /\ data[h].last_data_time = Some(current_time)

\* C6: a tick that drains no event of a Connected source makes it
\* Disconnected exactly when now - last_event_time exceeds the timeout, and
\* leaves it Connected otherwise; so during a tick, once the source is
\* passed, it is connected exactly when the tick's now is at most the timeout
\* past its last event (last event at 5 s: connected at the ticks of 5 s and
\* 14 s, disconnected at the tick of 16 s).
C6_TimeoutDisconnects ==
    /\ [][\A h \in Hosts :
            TickHostStep(h) /\ status_queue[h] = <<>> /\ data[h].connected =>
                /\ data'[h].last_data_time = data[h].last_data_time
                /\ data'[h].connected =
                      ~(current_time - data[h].last_data_time[1] > connection_timeout)]_vars
    /\ [](\A h \in Hosts :
            Passed(h) /\ data[h].last_data_time # Nothing =>
                (data[h].connected <=>
                    current_time - data[h].last_data_time[1] <= connection_timeout))

\* C6's case: the last event came with the tick of 5 s, and the tick of 16 s
\* has just disconnected the source, which the legend still shows Connected.
C6_Witness ==
    \E h \in Hosts :
        /\ Passed(h)
        /\ current_time = start_time + 16000
        /\ data[h].last_data_time = Some(start_time + 5000)
        /\ ~data[h].connected
        /\ legend[h].status = "Connected"

\* C7: a source is Connecting at first; it stays Connecting over every step
\* that is not a tick draining an event of it, it is no longer Connecting
\* after a tick that drains one, and once it is not Connecting it never is
\* again.
C7_ConnectingUntilFirstEvent ==
    /\ \A h \in Hosts : LegendStatus(data[h]) = "Connecting"
    /\ [][\A h \in Hosts :
            /\ LegendStatus(data[h]) = "Connecting"
                  /\ ~(TickHostStep(h) /\ status_queue[h] # <<>>) =>
                    LegendStatus(data'[h]) = "Connecting"
            /\ TickHostStep(h) /\ status_queue[h] # <<>> =>
                    LegendStatus(data'[h]) # "Connecting"
            /\ LegendStatus(data[h]) # "Connecting" =>
                    LegendStatus(data'[h]) # "Connecting"]_vars

\* C7's case: a source still Connecting at a tick more than the timeout
\* after the start, with lines of it already read but none decoded so far
\* by a tick.
C7_Witness ==
    \E h \in Hosts :
        /\ Passed(h)
        /\ current_time - start_time > connection_timeout
        /\ LegendStatus(data[h]) = "Connecting"
        /\ task[h] = "reading"

\* C8 (as stated): in sliding mode, after every tick that appends to a
\* source's buffer, the retained times span at most the window length (or
\* there is at most one point), under every interleaving of the reader with
\* the tick.
C8_SpanWithinWindow ==
    [][\A h \in Hosts :
          TickHostStep(h) /\ ~scrollback_mode /\ data_queue[h] # <<>> =>
              WithinWindow(data'[h].times)]_vars

\* C8 (amended): in sliding mode, for samples with non-decreasing times,
\* after every tick's pass over a source no retained point is older than the
\* window length before the tick's clock reading; the retained times span at
\* most the window length whenever none of them is later than that reading.
C8_NoPointOlderThanWindow ==
    [][\A h \in Hosts :
          TickHostStep(h) /\ ~scrollback_mode =>
              /\ \A i \in 1..Len(data'[h].times) :
                     data'[h].times[i] >= (current_time - start_time) - time_window
              /\ (\A i \in 1..Len(data'[h].times) :
                     data'[h].times[i] <= current_time - start_time) =>
                        WithinWindow(data'[h].times)]_vars

\* C8's case: a sliding-mode tick has appended a point and retains two
\* points exactly the window length apart, the older one on the cutoff.
C8_Witness ==
    \E h \in Hosts :
        /\ Passed(h)
        /\ ~scrollback_mode
        /\ Len(data[h].times) = 2
        /\ data[h].times[1] = (current_time - start_time) - time_window
        /\ data[h].times[2] - data[h].times[1] = time_window

\* C9: while scrollback mode is on, no step (tick or key event) removes a
\* point from a window buffer: each buffer after the step extends the buffer
\* before it.
C9_FrozenKeepsPoints ==
    [][scrollback_mode =>
          \A h \in Hosts :
              /\ IsPrefix(data[h].times, data'[h].times)
              /\ IsPrefix(data[h].distances, data'[h].distances)]_vars

\* C9's case: in scrollback mode a tick has passed a source whose buffer
\* holds a point older than the window length, and a newer one.
C9_Witness ==
    \E h \in Hosts :
        /\ Passed(h)
        /\ scrollback_mode
        /\ Len(data[h].times) = 2
        /\ data[h].times[1] < (current_time - start_time) - time_window

\* C10 (as stated): in sliding mode, after every tick the data of a source's
\* plot line is exactly its retained window buffer, also when eviction has
\* just emptied the buffer.
C10_LineIsBuffer ==
    [][\A h \in Hosts :
          TickHostStep(h) /\ ~scrollback_mode =>
              data'[h].line = [xdata |-> data'[h].times,
                               ydata |-> data'[h].distances]]_vars

\* C11 (as stated): in scrollback mode, the series shown for a source after a
\* tick is exactly the retained points whose time lies in
\* [zoom_start, zoom_start + zoom_duration].
C11_FrozenSeriesInViewport ==
    [][TickEndStep /\ scrollback_mode =>
          \A h \in Hosts :
              Shown(data'[h].line, xlim') =
                  Between(Points(data'[h].times, data'[h].distances),
                          zoom_start', zoom_start' + zoom_duration')]_vars

\* C12 (as stated): after any sequence of key events and ticks, zoom_duration
\* is within [10 s, 3600 s], zoom_start is not negative, and the viewport
\* [zoom_start, zoom_start + zoom_duration] does not extend past the current
\* relative time whenever that time is at least zoom_duration.
C12_ViewportClamped ==
    /\ MinZoom <= zoom_duration /\ zoom_duration <= MaxZoom
    /\ zoom_start >= 0
    /\ now - start_time >= zoom_duration =>
            zoom_start + zoom_duration <= now - start_time

\* C13 (as stated): at every moment, the points appended so far to a source's
\* window buffer are a prefix of the presence-true samples (non-zero flag) its
\* reader decoded, in decode order, none twice and none skipped.
C13_AppendedIsPrefixOfDecoded ==
    \A h \in Hosts : IsPrefix(appended[h], PresencePoints(h))

\* C14: a tick's pass over a source leaves as its latest presence and
\* distance those of the last sample on its status queue (the most recently
\* decoded one, presence true or false), and the end of the tick leaves as
\* its latest raw line the last line on its log queue (stdout or stderr);
\* a tick that finds the queue empty, and every other step, leaves them as
\* they were.
C14_LatestIsLastDrained ==
    [][\A h \in Hosts :
          /\ TickHostStep(h) /\ status_queue[h] # <<>> =>
                /\ data'[h].last_presence = Some(Last(status_queue[h])[2])
                /\ data'[h].last_distance = Some(Last(status_queue[h])[3])
          /\ ~(TickHostStep(h) /\ status_queue[h] # <<>>) =>
                /\ data'[h].last_presence = data[h].last_presence
                /\ data'[h].last_distance = data[h].last_distance
          /\ TickEndStep /\ log_queue[h] # <<>> =>
                latest_logs'[h] = Some(<<Last(log_queue[h])[1] - start_time,
                                         Last(log_queue[h])[2], Last(log_queue[h])[3]>>)
          /\ ~(TickEndStep /\ log_queue[h] # <<>>) =>
                latest_logs'[h] = latest_logs[h]]_vars

\* C14's case: one pass has drained a presence-true sample and then a
\* presence-false one (both lines are still on the log queue) and shows the
\* later one as the latest presence and distance.
C14_Witness ==
    \E h \in Hosts :
        /\ Passed(h)
        /\ status_queue[h] = <<>>
        /\ Len(log_queue[h]) = 2
        /\ log_queue[h][1][3] = L_present
        /\ log_queue[h][2][3] = L_absent
        /\ data[h].last_presence = Some(0)
        /\ data[h].last_distance = Some(0)
        /\ data[h].times # <<>>

\* C15 (as stated): once a source's task is over, because the stream could
\* not be opened, broke or ended, its running flag is false, and the task is
\* never started again.
C15_FailureStopsSource ==
    /\ [](\A h \in Hosts : task[h] \in {"failed", "finished"} => ~running[h])
    /\ [][\A h \in Hosts :
            task[h] \in {"failed", "finished"} => task'[h] = task[h]]_vars

\* C16: a failure of one source's task (no connection, a stream that ends or
\* breaks) leaves every other source's task, running flag, queues, identity
\* and sidecar log as they were; and once a source's task is over, every
\* other source can still connect and read its next line, and the tick can
\* still take its next step.
C16_FailureIsIsolated ==
    /\ [][\A h \in Hosts : FailureStep(h) =>
            \A g \in Hosts \ {h} :
                /\ task'[g] = task[g] /\ readers'[g] = readers[g]
                /\ running'[g] = running[g]
                /\ data_queue'[g] = data_queue[g]
                /\ status_queue'[g] = status_queue[g]
                /\ log_queue'[g] = log_queue[g]
                /\ chip_id'[g] = chip_id[g] /\ chip_model'[g] = chip_model[g]
                /\ log_file'[g] = log_file[g]
                /\ FilesOf(g, files') = FilesOf(g, files)
                /\ data'[g] = data[g]]_vars
    /\ [](\A h \in Hosts : Over(h) =>
            /\ \A g \in Hosts \ {h} :
                  /\ task[g] = "created" => ENABLED Connect(g)
                  /\ task[g] = "reading" /\ "stdout" \in readers[g]
                        /\ nlines < MaxLines =>
                              ENABLED read_stdout(g, {L_present}, {TRUE}, MaxLines)
            /\ ENABLED (TickBegin \/ TickHost \/ TickEnd))

\* C16's case: the first source failed to connect, the second one lost its
\* stderr; the second one still reads, holds its identity and its sidecar
\* log, and a tick has appended its sample.
C16_Witness ==
    /\ task["Host-1"] = "failed"
    /\ task["Host-2"] = "reading"
    /\ readers["Host-2"] = {"stdout"}
    /\ running["Host-2"]
    /\ chip_id["Host-2"] # None
    /\ log_file["Host-2"] # Nothing
    /\ data["Host-2"].times # <<>>
    /\ data["Host-2"].connected

\* C17 (as stated): once stop() has been called on a source, no step puts
\* anything on its log, status or data queue, whether stop() came while the
\* task was reading or before the task had started its remote command.
C17_NoPushAfterStop ==
    [][\A h \in Hosts : Stopped(h) =>
          /\ Len(log_queue'[h]) <= Len(log_queue[h])
          /\ Len(status_queue'[h]) <= Len(status_queue[h])
          /\ Len(data_queue'[h]) <= Len(data_queue[h])]_vars

\* C18 (as stated): with file logging enabled, a source has at most one
\* sidecar file, and once its identity is cached no step replaces the
\* cached id or model, opens another file, gives it another file handle or
\* empties a file.
C18_SidecarCreatedOnce ==
    /\ [](enable_file_logging => \A h \in Hosts : Len(FilesOf(h, files)) <= 1)
    /\ [][enable_file_logging =>
            \A h \in Hosts : chip_id[h] # None =>
                /\ chip_id'[h] = chip_id[h]
                /\ chip_model'[h] = chip_model[h]
                /\ Len(FilesOf(h, files')) = Len(FilesOf(h, files))
                /\ log_file'[h] = log_file[h]
                /\ \A i \in 1..Len(files) :
                       Len(files'[i].rows) >= Len(files[i].rows)]_vars

\* C19 (as stated): with file logging enabled, a source whose stream has
\* delivered samples and has ended without an identity line has a sidecar
\* log all the same.
C19_SidecarWithoutIdentity ==
    enable_file_logging =>
        \A h \in Hosts :
            /\ task[h] = "finished"
            /\ chip_id[h] = None
            /\ (status_queue[h] # <<>> \/ data[h].last_presence # Nothing)
            => FilesOf(h, files) # <<>>

\* C20 (as stated): the data rows of every sidecar log are exactly, in decode
\* order and one row each, the samples decoded while the source held that
\* log: no row for a sample decoded before the log was created, for a line
\* that does not decode or for a stderr line, and no sample without its row.
C20_RowsAreSamplesWhileOpen ==
    \A i \in 1..Len(files) : files[i].rows = files[i].seen

\* C21 (as stated): when the write of a sample to the sidecar log fails,
\* sidecar logging is off for that source from then on (it holds no log any
\* more, so no later sample attempts a write), and the sample is still put on
\* the status queue and, when its presence is 1, on the data queue.
C21_WriteFailureDisablesLogging ==
    [][\A h \in Hosts : WriteFailed(h) =>
          /\ log_file'[h] = Nothing
          /\ Len(status_queue'[h]) = Len(status_queue[h]) + 1
          /\ Last(status_queue'[h])[2] = 1 =>
                Len(data_queue'[h]) = Len(data_queue[h]) + 1]_vars

\* C22: with file logging not enabled, whatever lines were delivered, identity
\* lines among them, no sidecar file exists, no source holds a log, and so no
\* row was written.
C22_NoSidecarWhenDisabled ==
    ~enable_file_logging =>
        /\ files = <<>>
        /\ \A h \in Hosts : log_file[h] = Nothing

\* File logging is off and the source has handled an identity line and a
\* sample after it.
C22_Witness ==
    /\ ~enable_file_logging
    /\ \E h \in Hosts :
          /\ chip_id[h] = "00000303" /\ chip_model[h] = "BGT60TR13C"
          /\ status_queue[h] # <<>>
          /\ Last(log_queue[h])[3] = L_present

\* C23 (as stated): once the shutdown has called stop() on every source, no
\* sidecar file opened at any time of the run is open and no source holds a
\* log; and a further call of stop() changes nothing.
C23_NoHandleOpenAfterShutdown ==
    [][/\ nstops' >= NumHosts =>
             /\ \A i \in 1..Len(files') : ~files'[i].open
             /\ \A h \in Hosts : log_file'[h] = Nothing
       /\ (nstops >= NumHosts /\ nstops' = nstops + 1) =>
             UNCHANGED <<running, log_file, files>>]_vars

\* C24 (as stated): a stdout line that holds the marker 'chip id :', in any
\* letter case, followed by two tokens or more sets the device id to the
\* first and the device model to the second token after the marker, whether
\* or not the line decodes as a sample too.
C24_IdentityInAnyCase ==
    [][\A h \in Hosts, l \in IdentityLines :
          (Handled(h, l) /\ Len(AfterMarker(l)) >= 2) =>
              /\ chip_id'[h] = AfterMarker(l)[1]
              /\ chip_model'[h] = AfterMarker(l)[2]]_vars

\* C25: at the end of every tick legend_needs_update is raised if and only if
\* the liveness state of at least one source differs from its state before
\* the tick, the state the legend shows since the tick that changed it last.
C25_LegendFlagIffLivenessChanged ==
    /\ [](tpc = 0 => \A h \in Hosts : legend[h].status = LegendStatus(data[h]))
    /\ [][TickEndStep =>
             (legend_needs_update <=>
                 \E h \in Hosts : LegendStatus(data[h]) # legend[h].status)]_vars

\* A tick has passed both sources: one went from Connected to Disconnected,
\* the other is as it was, and the flag is raised.
C25_Witness ==
    /\ tpc = NumHosts + 1
    /\ legend_needs_update
    /\ legend["Host-1"].status = "Connected"
    /\ LegendStatus(data["Host-1"]) = "Disconnected"
    /\ legend["Host-2"].status = LegendStatus(data["Host-2"])

\* C26: the pass of a tick that takes a source from Connected to Disconnected
\* changes nothing but that: the running flag, the task, its readers and the
\* queues are as before and the buffer keeps its points; and a pass that finds
\* an event of a Disconnected source makes it Connected again.
C26_DisconnectChangesOnlyLiveness ==
    [][\A h \in Hosts :
          /\ (TickHostStep(h) /\ data[h].connected /\ ~data'[h].connected) =>
                /\ UNCHANGED <<running, task, readers>>
                /\ UNCHANGED <<data_queue, status_queue, log_queue>>
                /\ data'[h].times = data[h].times
                /\ data'[h].distances = data[h].distances
                /\ data'[h].last_data_time = data[h].last_data_time
          /\ (TickHostStep(h) /\ LegendStatus(data[h]) = "Disconnected"
                 /\ status_queue[h] # <<>>) =>
                LegendStatus(data'[h]) = "Connected"]_vars

\* The source sent one sample at 5 s and nothing since; the tick at 16 s has
\* marked it Disconnected, its task is still reading, and the point is still
\* the last point of its series.
C26_Witness ==
    \E h \in Hosts :
        /\ Passed(h)
        /\ current_time = start_time + 16000
        /\ LegendStatus(data[h]) = "Disconnected"
        /\ data[h].last_data_time = Some(start_time + 5000)
        /\ data[h].times = <<5000>>
        /\ Last(data[h].line.xdata) = 5000
        /\ running[h] /\ task[h] = "reading"

\* C27: in sliding mode the pass of a tick over a source evicts exactly the
\* points older than the window length before the tick's clock reading: what
\* the buffer retains of its points and the points just taken from the queue
\* is every one at or after the cutoff and no other.
C27_EvictsExactlyOlderThanCutoff ==
    [][\A h \in Hosts :
          (TickHostStep(h) /\ ~scrollback_mode) =>
              Points(data'[h].times, data'[h].distances) =
                  SelectSeq(Points(data[h].times, data[h].distances) \o QueuedPoints(h),
                            LAMBDA p : p[1] >= (current_time - start_time) - time_window)]_vars

\* A sliding-mode tick at 121 s has passed a source that had points at 0 s
\* and at 120 s: the older one is evicted, the other retained.
C27_Witness ==
    \E h \in Hosts :
        /\ Passed(h)
        /\ ~scrollback_mode
        /\ current_time - start_time = time_window + 1000
        /\ Len(appended[h]) = 2
        /\ appended[h][1][1] = 0
        /\ data[h].times = <<time_window>>

\* C28: in every reachable state the times of each source's buffer are in
\* non-decreasing order and the buffer holds as many distances as times.
C28_BufferOrderedAndParallel ==
    \A h \in Hosts :
        /\ Len(data[h].times) = Len(data[h].distances)
        /\ \A i, j \in 1..Len(data[h].times) :
               i <= j => data[h].times[i] <= data[h].times[j]

\* A buffer holds two points taken from the queue in one tick, the first
\* tick of the run, stamped 200 s apart.
C28_Witness ==
    \E h \in Hosts :
        /\ Passed(h)
        /\ latest_logs[h] = Nothing
        /\ Len(data[h].times) = 2
        /\ data[h].times[1] < data[h].times[2]
        /\ Len(data[h].distances) = 2

\* C29: only the pass of a tick over a source changes the source's window
\* buffer or its liveness state (connected, last event time): no step of a
\* reader, no stop() and no key event does.
C29_OnlyTickWritesBufferAndLiveness ==
    [][\A h \in Hosts :
          ~TickHostStep(h) =>
              /\ data'[h].times = data[h].times
              /\ data'[h].distances = data[h].distances
              /\ data'[h].connected = data[h].connected
              /\ data'[h].last_data_time = data[h].last_data_time]_vars

\* stop() was called on a source that is shown Connected with a point in its
\* buffer, after a key was pressed and while a sample waits on its queue.
C29_Witness ==
    \E h \in Hosts :
        /\ Stopped(h)
        /\ nkeys > 0
        /\ data[h].connected
        /\ data[h].times # <<>>
        /\ data_queue[h] # <<>>

\* C30 (as stated): the queues are all the reader and update_plot share, so
\* what update_plot shows of a device is never a partly updated value: the
\* legend shows no device, or the id and the model of one identity line,
\* never the id of one line with the model of another.
C30_NoPartialIdentityObserved ==
    \A h \in Hosts :
        \/ legend[h].chip = <<>>
        \/ \E l \in {L_chip, L_chip_other} : legend[h].chip = ChipShown(l)

\* C31 (as stated): every tick terminates: once update_plot has started it
\* returns, also while the reader of the source keeps putting new items on
\* the queues.
C31_TickTerminates == (tpc # 0) ~> (tpc = 0)

\* C32: while ticks keep occurring, no queued item is discarded or left on
\* its queue for ever: the presence-true samples the reader has queued are,
\* in order, the points appended to the buffer followed by those still on the
\* data queue; the n-th of them is eventually appended; and a status queue
\* that holds an item is eventually empty with the source marked connected.
C32_QueuedItemsReachTheGrapher ==
    /\ [](\A h \in Hosts : PresencePoints(h) = appended[h] \o QueuedPoints(h))
    /\ \A n \in 1..MaxLines :
          (Len(decoded["Host-1"]) >= n) ~> (Len(appended["Host-1"]) >= n)
    /\ (status_queue["Host-1"] # <<>>) ~>
          (status_queue["Host-1"] = <<>> /\ data["Host-1"].connected)

\* Two presence-true samples stamped 16 s apart were queued and one tick has
\* appended both and taken their status items.
C32_Witness ==
    /\ Passed("Host-1")
    /\ Len(decoded["Host-1"]) = 2
    /\ appended["Host-1"] = PresencePoints("Host-1")
    /\ data["Host-1"].times = <<0, 16000>>
    /\ data_queue["Host-1"] = <<>>
    /\ status_queue["Host-1"] = <<>>
    /\ data["Host-1"].connected

\* C33: once scrollback mode is off again, a tick that has passed every
\* source, the first one after the switch included, has left in no buffer a
\* point older than the window length before its clock reading, whatever
\* accumulated while the plot was frozen.
C33_SlidingBoundRestored ==
    (tpc = NumHosts + 1 /\ ~scrollback_mode) =>
        \A h \in Hosts : \A i \in 1..Len(data[h].times) :
            data[h].times[i] >= (current_time - start_time) - time_window

\* The first tick after scrollback mode was switched off has passed the
\* source: the tick before it, at 200 s, drew the frozen viewport from 0 s to
\* 120 s and kept the point stamped 0 s, and this one has evicted it.
C33_Witness ==
    /\ tpc = NumHosts + 1
    /\ ~scrollback_mode
    /\ xlim = Some(<<0, time_window>>)
    /\ \E h \in Hosts :
          /\ appended[h] # <<>>
          /\ appended[h][1][1] = 0
          /\ data[h].times = <<>>

====
